---- MODULE Spec2Model ----
(***************************************************************************)
(* Layout heuristics of prs_dataviz: the geometry inspector                *)
(* (get_data_max_in_range), the y-limit planner                            *)
(* (auto_calculate_ylim_for_annotations), the bracket positioner           *)
(* (auto_position_brackets), the legend column calculator                  *)
(* (_calculate_optimal_ncol) and the legend builder (prs_legend), the      *)
(* style and export entry points (apply_prs_style, save_prs_figure), and   *)
(* the small helpers get_significance_symbol, auto_extend_ylim,            *)
(* rgb_to_cmyk and cmyk_to_rgb.                                            *)
(*                                                                         *)
(* Numbers.  The code computes in floats.  Here a y-value v is the integer *)
(* v * Unit, so that the products by 0.8, 0.05, 0.08 and 0.02 the code     *)
(* forms are exact integers; an operation is only explored from axis       *)
(* limits on which its arithmetic is exact (OnGrid).  NaN and PosInf stand *)
(* for the floats nan and +inf in plotted data.  An x-value x is the       *)
(* integer 2 * x, so that the centre of a bar of width 1 is exact.         *)
(***************************************************************************)
EXTENDS Integers, Sequences, FiniteSets, TLC

VARIABLES ax, ret, env

vars == <<ax, ret, env>>

(***************************************************************************)
(* Bounds and value domains                                                *)
(***************************************************************************)
Unit == 500 * 500

MaxPrims == 2

MaxN == 3

MaxBracketPrims == 1

MaxComps == 2

MaxLabels == 5

NaN == -2000000000

PosInf == 2000000000

IsNaN(v) == v = NaN

IsFinite(v) == v # NaN /\ v # PosInf

\* x-positions of the categories (0, 1, 2, 3), doubled
XGrid == {0, 2, 4, 6}

BarHeights == {-2 * Unit, 3 * Unit, NaN}

BarBottoms == {0, Unit}

LineYs == {-1 * Unit, 2 * Unit, NaN}

ScatterYs == {-1 * Unit, 4 * Unit}

\* the limits a caller (or autoscaling) may have set: (lo, hi) with lo < hi
YLims == {<<-2 * Unit, -1 * Unit>>, <<-1 * Unit, 5 * Unit>>, <<0, 5 * Unit>>,
          <<Unit, 5 * Unit>>, <<3 * Unit, 5 * Unit>>}

\* x-positions of plotted line vertices and of scatter points
LineXs == {0, 2}

ScatterXs == {2, 4}

\* the optional (x_start, x_end) of get_data_max_in_range: <<>> is "no range"
NoRange == <<>>

Ranges == {<<s, e>> : s \in XGrid, e \in XGrid}

None == [op |-> "none"]

SetMax(S) == CHOOSE m \in S : \A v \in S : v <= m

(***************************************************************************)
(* The axes: what plt.subplots() returns and what ax.bar, ax.plot,         *)
(* ax.scatter and ax.set_ylim do to it.  patches holds the bar rectangles  *)
(* (x, width, y, height); lines and collections hold the vertices of all   *)
(* lines and the offsets of all scatter collections, which is all that     *)
(* get_data_max_in_range reads of them; texts holds the annotations in the *)
(* order they were added; ylim is the pair get_ylim returns.               *)
(***************************************************************************)
EmptyAxes ==
    [patches |-> {}, lines |-> {}, collections |-> {}, texts |-> <<>>, ylim |-> <<0, Unit>>]

\* the bar chart of the tests: ax.bar(np.arange(4), [1250, 1680, 2150, 2890], width=0.6);
\* the bar at position i has its centre at 2 * i; autoscaled limits (0, 1.05 * 2890)
RevenueData == <<1250, 1680, 2150, 2890>>

RevenueChart ==
    [patches |-> {[x |-> 2 * (i - 1) - 1, width |-> 2, y |-> 0, height |-> RevenueData[i] * Unit] : i \in 1..4},
     lines |-> {}, collections |-> {}, texts |-> <<>>,
     ylim |-> <<0, ((2890 * Unit) \div 100) * 105>>]

NPrims(a) == Cardinality(a.patches) + Cardinality(a.lines) + Cardinality(a.collections)

Bar(cap) ==
    /\ NPrims(ax) < cap
    /\ \E c \in XGrid \ {6}, h \in BarHeights, b \in BarBottoms :
          ax' = [ax EXCEPT !.patches = @ \cup {[x |-> c - 1, width |-> 2, y |-> b, height |-> h]}]
    /\ ret' = None
    /\ UNCHANGED env

Plot(ys) ==
    /\ NPrims(ax) < MaxPrims
    /\ \E x \in LineXs, y \in ys :
          ax' = [ax EXCEPT !.lines = @ \cup {[x |-> x, y |-> y]}]
    /\ ret' = None
    /\ UNCHANGED env

Scatter ==
    /\ NPrims(ax) < MaxPrims
    /\ \E x \in ScatterXs, y \in ScatterYs :
          ax' = [ax EXCEPT !.collections = @ \cup {[x |-> x, y |-> y]}]
    /\ ret' = None
    /\ UNCHANGED env

SetYlim ==
    /\ \E lim \in YLims : ax' = [ax EXCEPT !.ylim = lim]
    /\ ret' = None
    /\ UNCHANGED env

(***************************************************************************)
(* The process outside the axes: rcParams (those keys apply_prs_style sets *)
(* whose matplotlib default has the type of the value set), the font files *)
(* added to the font manager, what the warnings filter does with a         *)
(* UserWarning ("default" shows it, "error" raises it), the size of the    *)
(* figure and the files written.  A length is in 1/400 inch, so that 3.25  *)
(* inch and the height width * aspect_ratio are exact.                     *)
(***************************************************************************)
Inch == 20 * 20

DefaultRcParams ==
    ("axes.prop_cycle" :> "matplotlib") @@ ("axes.grid" :> FALSE)
    @@ ("axes.spines.top" :> TRUE) @@ ("axes.spines.left" :> TRUE)
    @@ ("font.size" :> 10) @@ ("font.family" :> <<"sans-serif">>) @@ ("figure.dpi" :> 100)

\* figsize (6.4, 4.8) is matplotlib's default
DefaultEnv ==
    [rcParams |-> DefaultRcParams, fonts |-> {}, filter |-> "default",
     figsize |-> <<(64 * Inch) \div 10, (48 * Inch) \div 10>>, files |-> {}]

(***************************************************************************)
(* get_data_max_in_range                                                   *)
(***************************************************************************)
\* helpers.py:91, 105, 115: (x_start is None and x_end is None) or x_start <= x <= x_end
InRange(x, r) == r = NoRange \/ (r[1] <= x /\ x <= r[2])

\* helpers.py:89: x_center = patch.get_x() + patch.get_width() / 2
XCenter(p) == p.x + p.width \div 2

\* helpers.py:97-98: y_top = y_bottom + height
YTop(p) == p.y + p.height

\* helpers.py:124: ax.get_ylim()[1] * 0.8
Fallback(a) == (a.ylim[2] \div 5) * 4

\* the values the three loops feed to max(data_max, .)
Scanned(a, r) ==
    {YTop(p) : p \in {q \in a.patches : InRange(XCenter(q), r) /\ ~IsNaN(q.height)}}
    \cup {pt.y : pt \in {q \in a.lines : InRange(q.x, r) /\ ~IsNaN(q.y)}}
    \cup {pt.y : pt \in {q \in a.collections : InRange(q.x, r) /\ ~IsNaN(q.y)}}

GetDataMaxInRange(a, r) ==
    LET data_max == SetMax({0} \cup Scanned(a, r))
    IN  IF data_max = 0 THEN Fallback(a) ELSE data_max

\* the arithmetic on these limits is exact in the integer representation
OnGrid(a) == a.ylim[1] % 500 = 0 /\ a.ylim[2] % 500 = 0

\* a call on the axes as they stand; the call does not change them, so one call
\* per state of the axes reaches every result
GetDataMax ==
    /\ ret = None
    /\ OnGrid(ax)
    /\ \E r \in {NoRange} \cup Ranges :
          ret' = [op |-> "max", range |-> r, val |-> GetDataMaxInRange(ax, r)]
    /\ UNCHANGED ax
    /\ UNCHANGED env

(***************************************************************************)
(* auto_calculate_ylim_for_annotations                                     *)
(***************************************************************************)
\* helpers.py:174-176, in hundredths: 0.05, 0.08, 0.02
BaseOffset == 5

StackSpacing == 8

TextSpacing == 2

\* helpers.py:166, 235: ymin if ymin > 0 else 0
DataMin(a) == IF a.ylim[1] > 0 THEN a.ylim[1] ELSE 0

\* helpers.py:170
DataRange(a) == GetDataMaxInRange(a, NoRange) - DataMin(a)

\* a slip in the stacking term: n levels of spacing instead of n - 1
TotalHeadroomPerLevel(a, n) == (BaseOffset + n * StackSpacing + TextSpacing) * (DataRange(a) \div 100)

\* helpers.py:179-181
TotalHeadroom(a, n) == (BaseOffset + (n - 1) * StackSpacing + TextSpacing) * (DataRange(a) \div 100)

\* helpers.py:184-185, 190: the tuple (ymin, ymax) the function returns
AutoCalculateYlim(a, n) == <<DataMin(a), GetDataMaxInRange(a, NoRange) + TotalHeadroom(a, n)>>

\* helpers.py:188: ax.set_ylim(ymin, ymax), taken to store the pair it is given
AxSetYlim(a, lim) == [a EXCEPT !.ylim = lim]

AutoCalcYlim ==
    /\ OnGrid(ax)
    /\ \E n \in 1..MaxN :
          LET lim == AutoCalculateYlim(ax, n)
          IN  /\ ax' = AxSetYlim(ax, lim)
              /\ ret' = [op |-> "ylim", n |-> n, before |-> ax, val |-> lim]
    /\ UNCHANGED env

\* the (base_extension, per_comparison) a caller passes, in percent; (12, 8) is the default
ExtensionArgs == {<<12, 8>>, <<20, 8>>, <<12, 15>>, <<20, 15>>}

\* helpers.py:129-190: the function with its full signature; its body reads neither
\* base_extension nor per_comparison
AutoCalculateYlimForAnnotations(a, n_comparisons, base_extension, per_comparison) ==
    AutoCalculateYlim(a, n_comparisons)

AutoCalcYlimWith ==
    /\ OnGrid(ax)
    /\ \E n \in 1..MaxN, e \in ExtensionArgs :
          LET lim == AutoCalculateYlimForAnnotations(ax, n, e[1], e[2])
          IN  /\ ax' = AxSetYlim(ax, lim)
              /\ ret' = [op |-> "ylim_with", n |-> n, base_extension |-> e[1],
                         per_comparison |-> e[2], before |-> ax, val |-> lim]
    /\ UNCHANGED env

(***************************************************************************)
(* auto_position_brackets                                                  *)
(***************************************************************************)
\* helpers.py:196-197, in hundredths: base_offset=0.05, stack_spacing=0.08
BracketBaseOffset == 5

BracketStackSpacing == 8

\* the (x_start, x_end) a caller compares: neighbours, a wider span, a span that
\* reaches the last position, and one given right to left
CompPairs == {<<0, 2>>, <<2, 4>>, <<0, 4>>, <<4, 6>>, <<4, 0>>}

CompLists == UNION {[1..k -> CompPairs] : k \in 0..MaxComps}

Abs(v) == IF v < 0 THEN -v ELSE v

\* helpers.py:240: key=lambda x: abs(x[1][1] - x[1][0])
SpanKey(c) == Abs(c[2] - c[1])

\* a sort that reverses the input order among equal keys
ComesBeforeTiesReversed(comps, i, j) ==
    \/ SpanKey(comps[i]) > SpanKey(comps[j])
    \/ (SpanKey(comps[i]) = SpanKey(comps[j]) /\ i > j)

\* sorted(..., reverse=True) is stable: i comes before j when its key is larger,
\* or equal with i earlier in the input
ComesBefore(comps, i, j) ==
    \/ SpanKey(comps[i]) > SpanKey(comps[j])
    \/ (SpanKey(comps[i]) = SpanKey(comps[j]) /\ i < j)

\* helpers.py:239-241: the input indices in sorted order
SortedComps(comps) ==
    [k \in 1..Len(comps) |->
        CHOOSE i \in 1..Len(comps) :
            Cardinality({j \in 1..Len(comps) : ComesBefore(comps, j, i)}) = k - 1]

\* helpers.py:245-254
BracketY(a, c, level) ==
    GetDataMaxInRange(a, c)
    + BracketBaseOffset * (DataRange(a) \div 100)
    + level * BracketStackSpacing * (DataRange(a) \div 100)

\* helpers.py:243-256: y_positions as appended, (original_idx, bracket_y) per level
YPositions(a, comps) ==
    LET sorted_comps == SortedComps(comps)
    IN  [k \in 1..Len(comps) |->
            <<sorted_comps[k], BracketY(a, comps[sorted_comps[k]], k - 1)>>]

\* the list returned as appended, without sorting it back
AppendedOrder(a, comps) ==
    LET y_positions == YPositions(a, comps)
    IN  [k \in 1..Len(comps) |-> y_positions[k][2]]

\* helpers.py:259-260: y_positions.sort(key=lambda x: x[0]); [y for _, y in y_positions]
AutoPositionBrackets(a, comps) ==
    LET y_positions == YPositions(a, comps)
    IN  [i \in 1..Len(comps) |->
            LET k == CHOOSE k \in 1..Len(comps) : y_positions[k][1] = i
            IN  y_positions[k][2]]

PositionBrackets ==
    /\ ret = None
    /\ OnGrid(ax)
    /\ \E comps \in CompLists :
          ret' = [op |-> "brackets", comps |-> comps, val |-> AutoPositionBrackets(ax, comps)]
    /\ UNCHANGED ax
    /\ UNCHANGED env

(***************************************************************************)
(* _calculate_optimal_ncol; a label is modelled by len(str(label))         *)
(***************************************************************************)
LabelLens == {5, 15, 16, 25, 26, 40, 41}

\* 'Non-syndromic: No', 'Non-syndromic: Yes', 'Syndromic: No', 'Syndromic: Yes'
SyndromicLabels == <<17, 18, 13, 14>>

\* six series with labels of 16 characters each, such as 'Control, week 12 '
SixGroupLabels == <<16, 16, 16, 16, 16, 16>>

\* the docstring examples: ['Very long description text', 'Another long one']
\* and ['Short', 'A bit longer']
DocLongLabels == <<26, 16>>

DocShortLabels == <<5, 12>>

LabelLists ==
    UNION {[1..k -> LabelLens] : k \in 0..MaxLabels}
    \cup {SyndromicLabels, SixGroupLabels, DocLongLabels, DocShortLabels}

\* the (max_label_length, max_cols) of the default call and of prs_legend's calls
NcolParams == {<<20, 4>>, <<30, 2>>, <<25, 3>>}

RECURSIVE SumLen(_)
SumLen(labels) == IF labels = <<>> THEN 0 ELSE Head(labels) + SumLen(Tail(labels))

MaxLen(labels) == SetMax({labels[i] : i \in 1..Len(labels)})

Min(a, b) == IF a < b THEN a ELSE b

Max(a, b) == IF a > b THEN a ELSE b

\* style.py:507: int(math.ceil(math.sqrt(n_labels)))
CeilSqrt(n) == CHOOSE k \in 0..n : k * k >= n /\ (k = 0 \/ (k - 1) * (k - 1) < n)

\* the medium bucket opened at an average of exactly 15 (>= for >)
CalculateOptimalNcolInclusive(labels, max_label_length, max_cols) ==
    IF labels = <<>> THEN 1
    ELSE LET n_labels == Len(labels)
             sum == SumLen(labels)
             max_length == MaxLen(labels)
         IN  IF max_length > 40 THEN 1
             ELSE IF sum > 25 * n_labels THEN Min(2, n_labels)
             ELSE IF sum >= 15 * n_labels THEN Min(3, Max(2, n_labels \div 2))
             ELSE IF n_labels <= 4 THEN Min(max_cols, n_labels)
             ELSE Min(max_cols, CeilSqrt(n_labels))

\* the short bucket without its small-count case: the square-root rule for every count
CalculateOptimalNcolRootOnly(labels, max_label_length, max_cols) ==
    IF labels = <<>> THEN 1
    ELSE LET n_labels == Len(labels)
             sum == SumLen(labels)
             max_length == MaxLen(labels)
         IN  IF max_length > 40 THEN 1
             ELSE IF sum > 25 * n_labels THEN Min(2, n_labels)
             ELSE IF sum > 15 * n_labels THEN Min(3, Max(2, n_labels \div 2))
             ELSE Min(max_cols, CeilSqrt(n_labels))

\* a variant that reads max_label_length: one column once a label is longer than it
CalculateOptimalNcolLengthCutoff(labels, max_label_length, max_cols) ==
    IF labels = <<>> THEN 1
    ELSE LET n_labels == Len(labels)
             sum == SumLen(labels)
             max_length == MaxLen(labels)
         IN  IF max_length > 40 \/ max_length > max_label_length THEN 1
             ELSE IF sum > 25 * n_labels THEN Min(2, n_labels)
             ELSE IF sum > 15 * n_labels THEN Min(3, Max(2, n_labels \div 2))
             ELSE IF n_labels <= 4 THEN Min(max_cols, n_labels)
             ELSE Min(max_cols, CeilSqrt(n_labels))

\* style.py:479-507; avg_length = sum / n_labels, so avg_length > c is sum > c * n_labels
CalculateOptimalNcol(labels, max_label_length, max_cols) ==
    IF labels = <<>> THEN 1
    ELSE LET n_labels == Len(labels)
             sum == SumLen(labels)
             max_length == MaxLen(labels)
         IN  IF max_length > 40 THEN 1
             ELSE IF sum > 25 * n_labels THEN Min(2, n_labels)
             ELSE IF sum > 15 * n_labels THEN Min(3, Max(2, n_labels \div 2))
             ELSE IF n_labels <= 4 THEN Min(max_cols, n_labels)
             ELSE Min(max_cols, CeilSqrt(n_labels))

CalcNcol ==
    /\ ret = None
    /\ \E labels \in LabelLists, prm \in NcolParams :
          ret' = [op |-> "ncol", labels |-> labels, max_label_length |-> prm[1],
                  max_cols |-> prm[2],
                  val |-> CalculateOptimalNcol(labels, prm[1], prm[2])]
    /\ UNCHANGED ax
    /\ UNCHANGED env

(***************************************************************************)
(* prs_legend.  Of the axes it reads the legend labels and whether there   *)
(* is a bar: lines holds the label of each line, patches the class and the *)
(* label of each patch, containers the class and the label of each         *)
(* container; legend_ is empty until ax.legend is called and then holds    *)
(* the keyword arguments of that call.  A label is its length; NoLabel is  *)
(* the label of an artist plotted without label=, which matplotlib leaves  *)
(* out of the legend.  A keyword dictionary is a function from the keys it *)
(* holds; the floats among its values are in hundredths (1.02 is 102).     *)
(* An optional argument is <<>> for None and <<v>> for the value v.        *)
(***************************************************************************)
MaxArtists == 1

NoLabel == 0

ArtistLabels == {NoLabel, 16}

PatchClasses == {"Rectangle", "Ellipse"}

EmptyLegendAxes == [lines |-> <<>>, patches |-> <<>>, containers |-> <<>>, legend_ |-> <<>>]

\* four barh calls of four bars each, labelled with the four Syndromic labels
SyndromicBarChart ==
    [lines |-> <<>>,
     patches |-> [i \in 1..16 |-> [cls |-> "Rectangle", label |-> NoLabel]],
     containers |-> [i \in 1..4 |-> [cls |-> "BarContainer", label |-> SyndromicLabels[i]]],
     legend_ |-> <<>>]

\* four ax.plot calls with labels of five characters, such as 'Before'[:5]
FourLineChart == [lines |-> <<5, 5, 5, 5>>, patches |-> <<>>, containers |-> <<>>, legend_ |-> <<>>]

NArtists(a) == Len(a.lines) + Len(a.patches) + Len(a.containers)

\* ax.bar(x, height, label=...): a Rectangle in ax.patches, a BarContainer carrying the label
LegendBar ==
    /\ ax.legend_ = <<>> /\ NArtists(ax) < MaxArtists
    /\ \E l \in ArtistLabels :
          ax' = [ax EXCEPT !.patches = Append(@, [cls |-> "Rectangle", label |-> NoLabel]),
                           !.containers = Append(@, [cls |-> "BarContainer", label |-> l])]
    /\ ret' = None
    /\ UNCHANGED env

\* ax.plot(x, y, label=...)
LegendPlot ==
    /\ ax.legend_ = <<>> /\ NArtists(ax) < MaxArtists
    /\ \E l \in ArtistLabels : ax' = [ax EXCEPT !.lines = Append(@, l)]
    /\ ret' = None
    /\ UNCHANGED env

\* ax.add_patch(Rectangle(..., label=...)) or ax.add_patch(Ellipse(..., label=...))
LegendAddPatch ==
    /\ ax.legend_ = <<>> /\ NArtists(ax) < MaxArtists
    /\ \E c \in PatchClasses, l \in ArtistLabels :
          ax' = [ax EXCEPT !.patches = Append(@, [cls |-> c, label |-> l])]
    /\ ret' = None
    /\ UNCHANGED env

\* ax.errorbar(x, y, yerr, label=...): an ErrorbarContainer in ax.containers
LegendErrorbar ==
    /\ ax.legend_ = <<>> /\ NArtists(ax) < MaxArtists
    /\ \E l \in ArtistLabels :
          ax' = [ax EXCEPT !.containers = Append(@, [cls |-> "ErrorbarContainer", label |-> l])]
    /\ ret' = None
    /\ UNCHANGED env

Labelled(seq) == SelectSeq(seq, LAMBDA l : l # NoLabel)

\* style.py:510-525: the labels ax.get_legend_handles_labels() returns
GetLegendLabels(a) ==
    Labelled(a.lines)
    \o Labelled([i \in 1..Len(a.patches) |-> a.patches[i].label])
    \o Labelled([i \in 1..Len(a.containers) |-> a.containers[i].label])

\* only the containers are looked at
IsBarChartContainersOnly(a) == a.containers # <<>>

\* style.py:528-553
IsBarChart(a) ==
    \/ \E i \in 1..Len(a.patches) : a.patches[i].cls = "Rectangle"
    \/ a.containers # <<>>

\* dict.setdefault(key, value)
SetDefault(kwargs, key, value) ==
    IF key \in DOMAIN kwargs THEN kwargs ELSE kwargs @@ (key :> value)

\* the framed positions: frameon, framealpha, edgecolor, ncol
Framed(kwargs, ncol) ==
    SetDefault(SetDefault(SetDefault(SetDefault(kwargs,
        "frameon", TRUE), "framealpha", 100), "edgecolor", "#CCCCCC"), "ncol", ncol)

\* style.py:787-790, and 761-765 with markerscale
CompactSpacing(kwargs) ==
    SetDefault(SetDefault(SetDefault(SetDefault(kwargs,
        "labelspacing", 25), "handleheight", 2), "handlelength", 2), "columnspacing", 75)

\* style.py:748-755
XAnchor(ncol) == IF ncol = 1 THEN 50 ELSE IF ncol = 2 THEN 35 ELSE IF ncol = 3 THEN 40 ELSE 45

\* the x-anchor 0.5 for every column count
PrsLegendKwargsCentred(a, position, compact, ncol, fontsize, kwargs) ==
    LET n == IF ncol # <<>> THEN ncol[1]
             ELSE IF position \in {"top", "top-smart"}
                  THEN CalculateOptimalNcol(GetLegendLabels(a), 20, 4)
             ELSE IF position = "outside"
                  THEN CalculateOptimalNcol(GetLegendLabels(a), 30, 2)
             ELSE CalculateOptimalNcol(GetLegendLabels(a), 25, 3)
        bar == IF IsBarChart(a)
               THEN SetDefault(SetDefault(SetDefault(kwargs,
                        "markerscale", 4), "handleheight", 2), "handlelength", 2)
               ELSE kwargs
        pos == IF position = "outside"
               THEN Framed(SetDefault(SetDefault(bar,
                        "loc", "center left"), "bbox_to_anchor", <<102, 50>>), n)
               ELSE IF position \in {"top", "top-smart"}
               THEN LET k1 == SetDefault(SetDefault(SetDefault(SetDefault(bar,
                                  "loc", "upper center"), "bbox_to_anchor", <<50, 112>>),
                                  "frameon", FALSE), "ncol", n)
                        k2 == SetDefault(SetDefault(k1, "markerscale", 4), "labelspacing", 25)
                    IN  SetDefault(SetDefault(SetDefault(k2,
                            "handleheight", 2), "handlelength", 2), "columnspacing", 75)
               ELSE IF position = "best"
               THEN Framed(SetDefault(bar, "loc", "best"), n)
               ELSE Framed(SetDefault(bar, "loc", position), n)
        cmp == IF compact THEN CompactSpacing(pos) ELSE pos
        fnt == SetDefault(cmp, "fontsize", IF fontsize # <<>> THEN fontsize[1] ELSE 12)
    IN  SetDefault(fnt, "title", "")

\* style.py:714-799: the keyword arguments prs_legend passes to ax.legend
PrsLegendKwargs(a, position, compact, ncol, fontsize, kwargs) ==
    LET n == IF ncol # <<>> THEN ncol[1]
             ELSE IF position \in {"top", "top-smart"}
                  THEN CalculateOptimalNcol(GetLegendLabels(a), 20, 4)
             ELSE IF position = "outside"
                  THEN CalculateOptimalNcol(GetLegendLabels(a), 30, 2)
             ELSE CalculateOptimalNcol(GetLegendLabels(a), 25, 3)
        bar == IF IsBarChart(a)
               THEN SetDefault(SetDefault(SetDefault(kwargs,
                        "markerscale", 4), "handleheight", 2), "handlelength", 2)
               ELSE kwargs
        pos == IF position = "outside"
               THEN Framed(SetDefault(SetDefault(bar,
                        "loc", "center left"), "bbox_to_anchor", <<102, 50>>), n)
               ELSE IF position \in {"top", "top-smart"}
               THEN LET k1 == SetDefault(SetDefault(SetDefault(SetDefault(bar,
                                  "loc", "upper center"), "bbox_to_anchor", <<XAnchor(n), 112>>),
                                  "frameon", FALSE), "ncol", n)
                        k2 == SetDefault(SetDefault(k1, "markerscale", 4), "labelspacing", 25)
                    IN  SetDefault(SetDefault(SetDefault(k2,
                            "handleheight", 2), "handlelength", 2), "columnspacing", 75)
               ELSE IF position = "best"
               THEN Framed(SetDefault(bar, "loc", "best"), n)
               ELSE Framed(SetDefault(bar, "loc", position), n)
        cmp == IF compact THEN CompactSpacing(pos) ELSE pos
        fnt == SetDefault(cmp, "fontsize", IF fontsize # <<>> THEN fontsize[1] ELSE 12)
    IN  SetDefault(fnt, "title", "")

Positions == {"best", "outside", "top", "top-smart", "upper left"}

NcolArgs == {<<>>} \cup {<<n>> : n \in 1..5}

FontsizeArgs == {<<>>, <<14>>}

\* the options a caller passes explicitly, each with a value no default has
\* (frameon=False is the default of 'top' only)
CallerValue ==
    [loc |-> "lower right", bbox_to_anchor |-> <<50, 100>>, frameon |-> FALSE,
     markerscale |-> 1, handleheight |-> 1, handlelength |-> 3]

CallerKwargs == {[k \in K |-> CallerValue[k]] : K \in SUBSET DOMAIN CallerValue}

\* a figure gets its legend once, after plotting
PrsLegend ==
    /\ ret = None /\ ax.legend_ = <<>>
    /\ \E position \in Positions, compact \in BOOLEAN, ncol \in NcolArgs,
          fontsize \in FontsizeArgs, kwargs \in CallerKwargs :
          /\ ax' = [ax EXCEPT !.legend_ =
                        <<PrsLegendKwargs(ax, position, compact, ncol, fontsize, kwargs)>>]
          /\ ret' = [op |-> "legend", position |-> position, compact |-> compact,
                     ncol |-> ncol, fontsize |-> fontsize, kwargs |-> kwargs, before |-> ax]
    /\ UNCHANGED env

(***************************************************************************)
(* apply_prs_style                                                         *)
(***************************************************************************)
StyleCycles == {"default", "clinical", "comparison", "pastel"}

\* font_family is a str or a list of str: the first element tells which
FontFamilies == {<<"str", "DejaVu Sans">>, <<"list", "Helvetica", "Arial">>}

FontSizes == {10, 12}

\* custom_font_paths: None or a list of paths
FontPaths == {<<>>, <<<<"fonts/Inter.ttf">>>>}

\* an unknown name selects the default cycle
SelectCycleFallback(cycle) ==
    IF cycle = "clinical" THEN <<"PRS_CLINICAL_CYCLE">>
    ELSE IF cycle = "comparison" THEN <<"PRS_COMPARISON_CYCLE">>
    ELSE <<"PRS_DEFAULT_CYCLE">>

\* style.py:78-87: <<color_cycle>>, or <<>> where the code raises ValueError
SelectCycle(cycle) ==
    IF cycle = "default" THEN <<"PRS_DEFAULT_CYCLE">>
    ELSE IF cycle = "clinical" THEN <<"PRS_CLINICAL_CYCLE">>
    ELSE IF cycle = "comparison" THEN <<"PRS_COMPARISON_CYCLE">>
    ELSE <<>>

\* style.py:91-157: the dictionary passed to plt.rcParams.update
PrsRcParams(color_cycle, font_family, font_size, show_grid, show_spines) ==
    ("figure.dpi" :> 100) @@ ("axes.grid" :> show_grid)
    @@ ("axes.spines.top" :> FALSE) @@ ("axes.spines.left" :> show_spines)
    @@ ("axes.prop_cycle" :> color_cycle)
    @@ ("font.family" :> (IF Head(font_family) = "str" THEN <<font_family[2]>> ELSE Tail(font_family)))
    @@ ("font.size" :> font_size)

\* dict.update
RcUpdate(rc, new) ==
    [k \in DOMAIN rc \cup DOMAIN new |-> IF k \in DOMAIN new THEN new[k] ELSE rc[k]]

ApplyPrsStyle ==
    /\ \E cycle \in StyleCycles, font_family \in FontFamilies, font_size \in FontSizes,
          show_grid \in BOOLEAN, show_spines \in BOOLEAN, custom_font_paths \in FontPaths :
          LET added == IF custom_font_paths = <<>> THEN env.fonts
                       ELSE env.fonts \cup {custom_font_paths[1][i] : i \in 1..Len(custom_font_paths[1])}
              color_cycle == SelectCycle(cycle)
          IN  IF color_cycle = <<>>
              THEN /\ env' = [env EXCEPT !.fonts = added]
                   /\ ret' = [op |-> "style", cycle |-> cycle, raised |-> "ValueError", before |-> env]
              ELSE /\ env' = [env EXCEPT !.fonts = added,
                                         !.rcParams = RcUpdate(@, PrsRcParams(color_cycle[1],
                                             font_family, font_size, show_grid, show_spines))]
                   /\ ret' = [op |-> "style", cycle |-> cycle, raised |-> "none", before |-> env]
    /\ UNCHANGED ax

(***************************************************************************)
(* save_prs_figure                                                         *)
(***************************************************************************)
MaxFiles == 1

PRS_MIN_DPI == 300

PRS_MIN_WIDTH_SINGLE == (13 * Inch) \div 4

SUPPORTED_FORMATS == {"tiff", "png", "jpeg", "jpg", "pdf", "eps"}

\* a filename is its stem and its suffix without the dot
Filenames == {[stem |-> "figure1", suffix |-> "tiff"], [stem |-> "draft", suffix |-> "PNG"],
              [stem |-> "chart", suffix |-> "svg"]}

FormatArgs == {<<>>, <<"pdf">>, <<"bmp">>}

Dpis == {150, 300}

Widths == {3 * Inch, PRS_MIN_WIDTH_SINGLE, 5 * Inch}

Figsizes == {<<8 * Inch, 6 * Inch>>, <<4 * Inch, 4 * Inch>>}

\* str.lower on the suffixes above
Lower(str) == IF str = "PNG" THEN "png" ELSE str

\* export.py:128-156: the issues collected; a non-empty list is one UserWarning
ValidatePrsRequirements(dpi, width_inches, format) ==
    (IF dpi < PRS_MIN_DPI THEN {"dpi"} ELSE {})
    \cup (IF width_inches < PRS_MIN_WIDTH_SINGLE THEN {"width"} ELSE {})
    \cup (IF format \notin SUPPORTED_FORMATS THEN {"format"} ELSE {})

\* export.py:159-221: the file written; a PNG is converted back to RGB
SavedFile(filename, format, dpi, cmyk) ==
    [name |-> filename, format |-> format, dpi |-> dpi,
     mode |-> IF format \in {"pdf", "eps"} THEN "vector"
              ELSE IF cmyk /\ format # "png" THEN "CMYK" ELSE "RGB"]

\* fig, ax = plt.subplots(figsize=...)
Subplots ==
    /\ \E size \in Figsizes : env' = [env EXCEPT !.figsize = size]
    /\ ret' = None
    /\ UNCHANGED ax

\* warnings.simplefilter("error") or warnings.simplefilter("default")
SimpleFilter ==
    /\ \E f \in {"default", "error"} : env' = [env EXCEPT !.filter = f]
    /\ ret' = None
    /\ UNCHANGED ax

\* export.py:96-125
SavePrsFigure ==
    /\ ret = None
    /\ \E filename \in Filenames, dpi \in Dpis, width_inches \in Widths, format \in FormatArgs,
          cmyk \in BOOLEAN, validate \in BOOLEAN :
          LET fmt == IF format = <<>> THEN Lower(filename.suffix) ELSE format[1]
              call == [op |-> "save", filename |-> filename, dpi |-> dpi,
                       width_inches |-> width_inches, validate |-> validate, before |-> env]
              issues == IF validate /\ fmt \in SUPPORTED_FORMATS
                        THEN ValidatePrsRequirements(dpi, width_inches, fmt) ELSE {}
              size == <<width_inches, (width_inches * env.figsize[2]) \div env.figsize[1]>>
              resized == [env EXCEPT !.figsize = size]
              png_cmyk == fmt = "png" /\ cmyk
          IN  /\ \/ Cardinality(env.files) < MaxFiles
                 \/ \E f \in env.files : f.name = filename
              /\ IF fmt \notin SUPPORTED_FORMATS
                 THEN /\ env' = env
                      /\ ret' = call @@ [raised |-> "ValueError", warned |-> {}]
                 ELSE IF issues # {} /\ env.filter = "error"
                 THEN /\ env' = env
                      /\ ret' = call @@ [raised |-> "UserWarning", warned |-> {}]
                 ELSE IF png_cmyk /\ env.filter = "error"
                 THEN /\ env' = resized
                      /\ ret' = call @@ [raised |-> "UserWarning", warned |-> issues]
                 ELSE /\ env' = [resized EXCEPT !.files =
                                     {f \in @ : f.name # filename}
                                     \cup {SavedFile(filename, fmt, dpi, cmyk)}]
                      /\ ret' = call @@ [raised |-> "none",
                                         warned |-> issues \cup (IF png_cmyk THEN {"png-cmyk"} ELSE {})]
    /\ UNCHANGED ax

(***************************************************************************)
(* get_significance_symbol; a p-value p is the integer 10000 * p, so the   *)
(* thresholds 0.001, 0.01 and 0.05 are 10, 100 and 500                     *)
(***************************************************************************)
MaxP == 600

PValues == 0..MaxP \cup {-1, 1200, 10000, NaN}

\* p_value < c in floats: false when p_value is nan
Below(p_value, c) == ~IsNaN(p_value) /\ p_value < c

\* the thresholds taken inclusive (<= for <)
GetSignificanceSymbolInclusive(p_value) ==
    IF ~IsNaN(p_value) /\ p_value <= 10 THEN "***"
    ELSE IF ~IsNaN(p_value) /\ p_value <= 100 THEN "**"
    ELSE IF ~IsNaN(p_value) /\ p_value <= 500 THEN "*"
    ELSE "ns"

\* helpers.py:688-695
GetSignificanceSymbol(p_value) ==
    IF Below(p_value, 10) THEN "***"
    ELSE IF Below(p_value, 100) THEN "**"
    ELSE IF Below(p_value, 500) THEN "*"
    ELSE "ns"

GetSymbol ==
    /\ \E p \in PValues : ret' = [op |-> "symbol", p_value |-> p, val |-> GetSignificanceSymbol(p)]
    /\ UNCHANGED <<ax, env>>

(***************************************************************************)
(* auto_extend_ylim; extension_pct is in percent                           *)
(***************************************************************************)
ExtensionPcts == {0, 10, 15}

\* the range measured from the new minimum instead of the old one
AutoExtendYlimFromNewMin(a, extension_pct) ==
    LET ymin == a.ylim[1]
        ymax == a.ylim[2]
        new_ymin == IF ymin >= 0 THEN 0 ELSE ymin
        y_range == ymax - new_ymin
    IN  <<new_ymin, ymax + (y_range \div 100) * extension_pct>>

\* helpers.py:44-54: the tuple (new_ymin, new_ymax) the function sets and returns
AutoExtendYlim(a, extension_pct) ==
    LET ymin == a.ylim[1]
        ymax == a.ylim[2]
        y_range == ymax - ymin
        new_ymax == ymax + (y_range \div 100) * extension_pct
        new_ymin == IF ymin >= 0 THEN 0 ELSE ymin
    IN  <<new_ymin, new_ymax>>

AutoExtend ==
    /\ OnGrid(ax)
    /\ \E pct \in ExtensionPcts :
          LET lim == AutoExtendYlim(ax, pct)
          IN  /\ ax' = AxSetYlim(ax, lim)
              /\ ret' = [op |-> "extend", extension_pct |-> pct, before |-> ax, val |-> lim]
    /\ UNCHANGED env

(***************************************************************************)
(* rgb_to_cmyk and cmyk_to_rgb; a colour component x in [0, 1] is the      *)
(* integer Scale * x, a quotient is rounded down to a multiple of 1/Scale  *)
(***************************************************************************)
Scale == 10 * 100

Levels == {0, 1, 250, 300, 500, 700, Scale}

Max3(r, g, b) == Max(r, Max(g, b))

\* palettes.py:32-40
RgbToCmyk(r, g, b) ==
    IF <<r, g, b>> = <<0, 0, 0>> THEN <<0, 0, 0, Scale>>
    ELSE LET k == Scale - Max3(r, g, b)
             c == IF k < Scale THEN ((Scale - r - k) * Scale) \div (Scale - k) ELSE 0
             m == IF k < Scale THEN ((Scale - g - k) * Scale) \div (Scale - k) ELSE 0
             y == IF k < Scale THEN ((Scale - b - k) * Scale) \div (Scale - k) ELSE 0
         IN  <<c, m, y, k>>

\* the black component left out of the product
CmykToRgbWithoutK(c, m, y, k) == <<Scale - c, Scale - m, Scale - y>>

\* palettes.py:57-61
CmykToRgb(c, m, y, k) ==
    <<((Scale - c) * (Scale - k)) \div Scale,
      ((Scale - m) * (Scale - k)) \div Scale,
      ((Scale - y) * (Scale - k)) \div Scale>>

ToCmyk ==
    /\ ret = None
    /\ \E r \in Levels, g \in Levels, b \in Levels :
          ret' = [op |-> "rgb_to_cmyk", rgb |-> <<r, g, b>>, val |-> RgbToCmyk(r, g, b)]
    /\ UNCHANGED <<ax, env>>

\* the conversion back of what rgb_to_cmyk returned
ToRgb ==
    /\ ret.op = "rgb_to_cmyk"
    /\ ret' = [op |-> "cmyk_to_rgb", rgb |-> ret.rgb, cmyk |-> ret.val,
               val |-> CmykToRgb(ret.val[1], ret.val[2], ret.val[3], ret.val[4])]
    /\ UNCHANGED <<ax, env>>

(***************************************************************************)
(* add_significance_indicator.  A p-value is the integer 10000 * p; the    *)
(* text shown is <<"p < 0.001">>, <<"p = ", d, v>> for the value printed   *)
(* with d decimals (v in units of 10^-d), or <<"symbol", s>> for the       *)
(* symbol s.  tip_length and text_offset have their defaults (1% of the    *)
(* axis range).                                                            *)
(***************************************************************************)
MaxTexts == 1

\* p_value: None, or a value that no formatting rounds at an exact half
PValueArgs == {<<>>, <<5>>, <<10>>, <<99>>, <<230>>, <<1200>>, <<NaN>>}

SymbolArgs == {"*", "ns"}

IndicatorYs == {3 * Unit, 4 * Unit}

\* f"{p_value:.3f}" and f"{p_value:.2f}": unit is 10 and 100
Rounded(p_value, unit) == IF IsNaN(p_value) THEN NaN ELSE (p_value + unit \div 2) \div unit

\* the p-value shown whenever one is given
DisplayTextAlwaysP(p_value, symbol, show_p_value) ==
    IF p_value # <<>>
    THEN IF Below(p_value[1], 10) THEN <<"p < 0.001">>
         ELSE IF Below(p_value[1], 100) THEN <<"p = ", 3, Rounded(p_value[1], 10)>>
         ELSE <<"p = ", 2, Rounded(p_value[1], 100)>>
    ELSE <<"symbol", symbol>>

\* style.py:337-354
DisplayText(p_value, symbol, show_p_value) ==
    IF show_p_value /\ p_value # <<>>
    THEN IF Below(p_value[1], 10) THEN <<"p < 0.001">>
         ELSE IF Below(p_value[1], 100) THEN <<"p = ", 3, Rounded(p_value[1], 10)>>
         ELSE <<"p = ", 2, Rounded(p_value[1], 100)>>
    ELSE <<"symbol", symbol>>

\* style.py:304-334: the vertices of the bracket line ax.plot adds
BracketLine(a, y, x_start, x_end) ==
    LET tip_length == (a.ylim[2] - a.ylim[1]) \div 100
    IN  {[x |-> x_start, y |-> y - tip_length], [x |-> x_start, y |-> y],
         [x |-> x_end, y |-> y], [x |-> x_end, y |-> y - tip_length]}

\* style.py:298-369: the axes after the call
AddSignificanceIndicator(a, x, y, p_value, symbol, bracket, x_start, x_end, show_p_value) ==
    LET text_offset == (a.ylim[2] - a.ylim[1]) \div 100
        lines == IF bracket /\ x_start # <<>> /\ x_end # <<>>
                 THEN a.lines \cup BracketLine(a, y, x_start[1], x_end[1])
                 ELSE a.lines
    IN  [a EXCEPT !.lines = lines,
                  !.texts = Append(@, [x |-> x, y |-> y + text_offset,
                                       text |-> DisplayText(p_value, symbol, show_p_value)])]

AddIndicator ==
    /\ ret = None /\ OnGrid(ax) /\ Len(ax.texts) < MaxTexts
    /\ \E y \in IndicatorYs, p_value \in PValueArgs, symbol \in SymbolArgs, bracket \in BOOLEAN,
          x_start \in {<<>>, <<0>>}, x_end \in {<<>>, <<2>>}, show_p_value \in BOOLEAN :
          /\ ax' = AddSignificanceIndicator(ax, 1, y, p_value, symbol, bracket,
                                            x_start, x_end, show_p_value)
          /\ ret' = [op |-> "indicator", p_value |-> p_value, symbol |-> symbol,
                     bracket |-> bracket, show_p_value |-> show_p_value, before |-> ax]
    /\ UNCHANGED env

(***************************************************************************)
(* add_multiple_comparisons                                                *)
(***************************************************************************)
MaxMc == 4

\* x = np.arange(4), the positions of the four bars (doubled, as all x-values)
McXPositions == <<0, 2, 4, 6>>

\* the (index1, index2, p_value) a caller passes: the three of
\* tests/debug_brackets.py and one comparison given right to left
McTriples == {<<2, 3, 250>>, <<1, 3, 80>>, <<0, 3, 2>>, <<1, 0, 100>>}

McLists == UNION {[1..k -> McTriples] : k \in 0..MaxMc}

\* helpers.py:442-447
XRanges(comparisons, x_positions) ==
    [i \in 1..Len(comparisons) |->
        <<x_positions[comparisons[i][1] + 1], x_positions[comparisons[i][2] + 1]>>]

\* helpers.py:452-462: the loop over zip(comparisons, y_positions), from its k-th turn
RECURSIVE DrawIndicators(_, _, _, _, _)
DrawIndicators(a, comparisons, x_positions, y_positions, k) ==
    IF k > Len(comparisons) THEN a
    ELSE LET x1 == x_positions[comparisons[k][1] + 1]
             x2 == x_positions[comparisons[k][2] + 1]
             drawn == AddSignificanceIndicator(a, (x1 + x2) \div 2, y_positions[k],
                                               <<comparisons[k][3]>>, "*", TRUE,
                                               <<x1>>, <<x2>>, TRUE)
         IN  DrawIndicators(drawn, comparisons, x_positions, y_positions, k + 1)

\* helpers.py:438-462
AddMultipleComparisons(a, comparisons, x_positions, auto_adjust_ylim) ==
    LET adjusted == IF auto_adjust_ylim
                    THEN AxSetYlim(a, AutoCalculateYlimForAnnotations(a, Len(comparisons), 12, 8))
                    ELSE a
        y_positions == AutoPositionBrackets(adjusted, XRanges(comparisons, x_positions))
    IN  DrawIndicators(adjusted, comparisons, x_positions, y_positions, 1)

\* a call on axes that carry no annotation yet
AddComparisons ==
    /\ ret = None
    /\ OnGrid(ax)
    /\ ax.texts = <<>>
    /\ \E comparisons \in McLists, auto_adjust_ylim \in BOOLEAN :
          /\ ax' = AddMultipleComparisons(ax, comparisons, McXPositions, auto_adjust_ylim)
          /\ ret' = [op |-> "comparisons", comparisons |-> comparisons,
                     auto_adjust_ylim |-> auto_adjust_ylim, before |-> ax]
    /\ UNCHANGED env

(***************************************************************************)
(* calculate_optimal_ylim                                                  *)
(***************************************************************************)
\* the data_max a caller passes: None, 90 (tests/test_helper_functions.py), 95
\* (the docstring), zero and a negative maximum
DataMaxArgs == {<<>>, <<90 * Unit>>, <<95 * Unit>>, <<0>>, <<-2 * Unit>>}

\* helpers.py:727: isinstance(height, (int, float)).  ax.bar keeps each height as
\* the numpy scalar of its data: numpy.float64 is a float, while the numpy.int64
\* of a chart drawn from Python ints, as the revenue chart is, is neither
IsIntOrFloat(patch) == patch \notin RevenueChart.patches

\* helpers.py:723-728; nan > data_max is False
DetectedMax(a) ==
    SetMax({0} \cup {q.height : q \in {r \in a.patches : IsIntOrFloat(r) /\ ~IsNaN(r.height)}})

\* helpers.py:698-741, base_extension = 0.12 and additional_per_comp = 0.06 in hundredths
CalculateOptimalYlim(a, data_max, n_comparisons) ==
    LET dm == IF data_max = <<>> THEN DetectedMax(a) ELSE data_max[1]
        total_extension == 12 + (n_comparisons - 1) * 6
        ymin == IF dm >= 0 THEN 0 ELSE (dm \div 10) * 11
        ymax == (dm \div 100) * (100 + total_extension)
    IN  <<ymin, ymax>>

CalcOptimalYlim ==
    /\ ret = None
    /\ \E data_max \in DataMaxArgs, n \in 1..MaxN :
          ret' = [op |-> "optimal", data_max |-> data_max, n |-> n,
                  val |-> CalculateOptimalYlim(ax, data_max, n)]
    /\ UNCHANGED ax
    /\ UNCHANGED env

(***************************************************************************)
(* Specifications                                                          *)
(***************************************************************************)
Init == ax \in {EmptyAxes, RevenueChart} /\ ret = None /\ env = DefaultEnv

NextMax == Bar(MaxPrims) \/ Plot(LineYs \cup {PosInf}) \/ Scatter \/ SetYlim \/ GetDataMax

SpecMax == Init /\ [][NextMax]_vars

NextYlim == Bar(MaxPrims) \/ Plot(LineYs) \/ Scatter \/ SetYlim \/ AutoCalcYlim

SpecYlim == Init /\ [][NextYlim]_vars

NextYlimWith == Bar(MaxBracketPrims) \/ SetYlim \/ AutoCalcYlimWith

SpecYlimWith == Init /\ [][NextYlimWith]_vars

NextBrackets == Bar(MaxBracketPrims) \/ SetYlim \/ PositionBrackets

SpecBrackets == Init /\ [][NextBrackets]_vars

InitLegend == ax = EmptyAxes /\ ret = None /\ env = DefaultEnv

NextLegend == CalcNcol

SpecLegend == InitLegend /\ [][NextLegend]_vars

InitPrsLegend ==
    ax \in {EmptyLegendAxes, SyndromicBarChart, FourLineChart} /\ ret = None /\ env = DefaultEnv

NextPrsLegend == LegendBar \/ LegendPlot \/ LegendAddPatch \/ LegendErrorbar \/ PrsLegend

SpecPrsLegend == InitPrsLegend /\ [][NextPrsLegend]_vars

NextStyle == ApplyPrsStyle

SpecStyle == InitLegend /\ [][NextStyle]_vars

NextSymbol == GetSymbol

SpecSymbol == InitLegend /\ [][NextSymbol]_vars

NextExtend == Bar(MaxBracketPrims) \/ SetYlim \/ AutoExtend

SpecExtend == Init /\ [][NextExtend]_vars

NextCmyk == ToCmyk \/ ToRgb

SpecCmyk == InitLegend /\ [][NextCmyk]_vars

NextIndicator == SetYlim \/ AddIndicator

SpecIndicator == Init /\ [][NextIndicator]_vars

NextComparisons == SetYlim \/ AddComparisons

SpecComparisons == Init /\ [][NextComparisons]_vars

NextOptimal == Bar(MaxBracketPrims) \/ SetYlim \/ CalcOptimalYlim

SpecOptimal == Init /\ [][NextOptimal]_vars

NextSave == Subplots \/ SimpleFilter \/ SavePrsFigure

SpecSave == InitLegend /\ [][NextSave]_vars

(***************************************************************************)
(* Properties of auto_calculate_ylim_for_annotations                       *)
(***************************************************************************)
Planned == ret.op = "ylim"

\* what get_data_max_in_range(ax) found on the plot the planner was called on
FoundMax == GetDataMaxInRange(ret.before, NoRange)

Floor0 == IF ret.before.ylim[1] > 0 THEN ret.before.ylim[1] ELSE 0

C4_NewMaxAboveDataMax ==
    Planned => (FoundMax - Floor0 = 0 \/ ret.val[2] > FoundMax)

\* C5: after any planning step the axis range satisfies max > min.
C5_MaxAboveMin == Planned => ax.ylim[2] > ax.ylim[1]

\* C6: on the same plot, a larger n_comparisons never gives a smaller returned maximum.
C6_MonotonicInN ==
    Planned => \A n2 \in ret.n..MaxN : AutoCalculateYlim(ret.before, n2)[2] >= ret.val[2]

\* C24: on a plot that holds data, a second call with the same n_comparisons,
\* made on the axes the first call has left, returns the limits of the first.
C24_Idempotent ==
    (Planned /\ OnGrid(ax) /\ Scanned(ax, NoRange) # {}) =>
        AutoCalculateYlim(ax, ret.n) = ret.val

PlannedWith == ret.op = "ylim_with"

\* C15: the extension is governed by the arguments: base_extension is the extension
\* for the first annotation and per_comparison is added for each further comparison;
\* so, on a plot with data of positive range, a larger base_extension gives a higher
\* maximum for one comparison, and a larger per_comparison for more than one.
C15_ArgumentsGovernExtension ==
    (PlannedWith /\ Scanned(ret.before, NoRange) # {} /\ FoundMax - Floor0 > 0) =>
        \A e \in ExtensionArgs :
            LET other == AutoCalculateYlimForAnnotations(ret.before, ret.n, e[1], e[2])
            IN  /\ (e[1] > ret.base_extension /\ e[2] >= ret.per_comparison)
                       => other[2] > ret.val[2]
                /\ (e[1] >= ret.base_extension /\ e[2] > ret.per_comparison /\ ret.n > 1)
                       => other[2] > ret.val[2]

(***************************************************************************)
(* Properties of get_data_max_in_range                                     *)
(***************************************************************************)
Queried == ret.op = "max"

InQuery(x) == ret.range = NoRange \/ (ret.range[1] <= x /\ x <= ret.range[2])

\* the primitives in the queried range, by x-position (bars by their centre)
Matching ==
    {p \in ax.patches : InQuery(p.x + p.width \div 2)}
    \cup {q \in ax.lines : InQuery(q.x)} \cup {q \in ax.collections : InQuery(q.x)}

\* their finite values: the top edge of a bar, the y of a point
FiniteValues ==
    {p.y + p.height : p \in {b \in ax.patches : InQuery(b.x + b.width \div 2) /\ IsFinite(b.height)}}
    \cup {q.y : q \in {l \in ax.lines : InQuery(l.x) /\ IsFinite(l.y)}}
    \cup {q.y : q \in {c \in ax.collections : InQuery(c.x) /\ IsFinite(c.y)}}

\* C7: when a primitive matches, the result is the maximum of the bar tops, line
\* points and scatter points in the closed x-range (all of them with no range),
\* non-finite values ignored.
C7_MaxOfMatching ==
    (Queried /\ FiniteValues # {}) => ret.val = SetMax(FiniteValues)

\* C8: when no primitive lies in the requested range, the result is 80% of the
\* current y-axis maximum, and it is finite and positive.
C8_FallbackPositive ==
    (Queried /\ Matching = {}) =>
        /\ 5 * (ret.val \div 4) = ax.ylim[2]
        /\ ret.val % 4 = 0
        /\ IsFinite(ret.val)
        /\ ret.val > 0

\* families of disjoint closed sub-ranges that together cover the x-positions
Families ==
    {F \in SUBSET {r \in Ranges : r[1] <= r[2]} :
        /\ \A x \in XGrid : \E r \in F : r[1] <= x /\ x <= r[2]
        /\ \A r1, r2 \in F : r1 # r2 => (r1[2] < r2[1] \/ r2[2] < r1[1])}

\* C9: the result with no x-range equals the maximum of the results over the
\* sub-ranges of any family of disjoint sub-ranges covering the x-domain.
C9_MaxOverSubRanges ==
    (Queried /\ ret.range = NoRange) =>
        \A F \in Families : ret.val = SetMax({GetDataMaxInRange(ax, r) : r \in F})

(***************************************************************************)
(* Properties of auto_position_brackets                                    *)
(***************************************************************************)
Positioned == ret.op = "brackets"

Width(i) == IF ret.comps[i][2] >= ret.comps[i][1] THEN ret.comps[i][2] - ret.comps[i][1]
            ELSE ret.comps[i][1] - ret.comps[i][2]

\* the stack level of the i-th input comparison: how many comparisons are sorted
\* before it (wider ones, and equally wide ones given earlier)
LevelOf(i) ==
    Cardinality({j \in 1..Len(ret.comps) :
                    Width(j) > Width(i) \/ (Width(j) = Width(i) /\ j < i)})

LocalMax(i) == GetDataMaxInRange(ax, ret.comps[i])

OverallRange == GetDataMaxInRange(ax, NoRange) - (IF ax.ylim[1] > 0 THEN ax.ylim[1] ELSE 0)

\* C1: one y-position per input comparison, the i-th value being the position of
\* the i-th input comparison (its own local maximum, raised by its own stack
\* level), whatever the sorted order was.
C1_InputOrder ==
    Positioned =>
        /\ Len(ret.val) = Len(ret.comps)
        /\ \A i \in 1..Len(ret.comps) :
              ret.val[i] = LocalMax(i) + 5 * (OverallRange \div 100)
                           + LevelOf(i) * 8 * (OverallRange \div 100)

\* a call where sorting by width reorders the comparisons and their positions differ
C1_Witness ==
    /\ Positioned
    /\ Len(ret.comps) = 2
    /\ Width(1) < Width(2)
    /\ Scanned(ax, ret.comps[1]) # {}
    /\ ret.val[1] # ret.val[2]

\* C2: among comparisons whose x-ranges share the same local data maximum (each
\* range holds plotted data, and the maxima found in them are equal), the strictly
\* widest one gets the highest y-position.
C2_WidestIsTopmost ==
    Positioned =>
        \A i \in 1..Len(ret.comps) :
            (/\ \A j \in 1..Len(ret.comps) : j # i => Width(i) > Width(j)
             /\ \A j \in 1..Len(ret.comps) :
                   Scanned(ax, ret.comps[j]) # {} /\ LocalMax(j) = LocalMax(i))
            => \A j \in 1..Len(ret.comps) : ret.val[i] >= ret.val[j]

\* the height of the i-th position above the maximum found in its x-range
Lift(i) == ret.val[i] - LocalMax(i)

\* C25: of two equally wide comparisons, the one given earlier in the input is
\* stacked lower: the later one is lifted by a whole number (at least one) of
\* stack spacings more.
C25_StableTieBreak ==
    (Positioned /\ OverallRange \div 100 # 0) =>
        \A i, j \in 1..Len(ret.comps) :
            (i < j /\ Width(i) = Width(j)) =>
                \E k \in 1..(Len(ret.comps) - 1) :
                    Lift(j) - Lift(i) = k * BracketStackSpacing * (OverallRange \div 100)

\* two different comparisons of equal width over a chart with data
C25_Witness ==
    /\ Positioned
    /\ ret.comps = <<<<2, 4>>, <<0, 2>>>>
    /\ ax.patches # {}
    /\ OverallRange > 0
    /\ Lift(2) > Lift(1)

\* the data plotted inside the i-th comparison's x-range, and in the whole plot
DataIn(i) == Scanned(ax, ret.comps[i])

AllData == Scanned(ax, NoRange)

\* the data under any of the spans of the call
SpanData == UNION {DataIn(j) : j \in 1..Len(ret.comps)}

AxisFloor == IF ax.ylim[1] > 0 THEN ax.ylim[1] ELSE 0

\* C23: a comparison at stack level L over plotted data is placed at
\* local_max + base_offset * data_range + L * stack_spacing * data_range, with
\* local_max the maximum of the data in its x-range and data_range one value for
\* the whole call: the overall data maximum (of the plot, or of the data under
\* the spans) minus max(0, axis minimum).
C23_SharedDataRange ==
    Positioned =>
        \E overall \in {SetMax(S) : S \in {AllData, SpanData} \ {{}}} \cup {0} :
            \A i \in 1..Len(ret.comps) :
                DataIn(i) # {} =>
                    ret.val[i] = SetMax(DataIn(i))
                                 + BracketBaseOffset * ((overall - AxisFloor) \div 100)
                                 + LevelOf(i) * BracketStackSpacing * ((overall - AxisFloor) \div 100)

(***************************************************************************)
(* Properties of _calculate_optimal_ncol                                   *)
(***************************************************************************)
Counted == ret.op = "ncol"

NLabels == Len(ret.labels)

RECURSIVE TotalLen(_)
TotalLen(k) == IF k = 0 THEN 0 ELSE ret.labels[k] + TotalLen(k - 1)

\* average label length > c
AvgAbove(c) == TotalLen(NLabels) > c * NLabels

Longest == CHOOSE m \in {ret.labels[i] : i \in 1..NLabels} : \A i \in 1..NLabels : ret.labels[i] <= m

Smaller(a, b) == IF a <= b THEN a ELSE b

Larger(a, b) == IF a >= b THEN a ELSE b

\* the least k with k * k >= n
RootUp(n) == CHOOSE k \in 1..n : k * k >= n /\ \A m \in 1..(k - 1) : m * m < n

AvgBelow(c) == TotalLen(NLabels) < c * NLabels

DefaultCall == Counted /\ ret.max_label_length = 20 /\ ret.max_cols = 4

\* C11 as stated: with the default max_cols, every label set of at most 4 labels
\* whose average length is below 15 gets min(4, number of labels) columns.
C11_ShortLabelsMinFour ==
    (DefaultCall /\ NLabels <= 4 /\ AvgBelow(15)) => ret.val = Smaller(4, NLabels)

\* C11 amended: with the default max_cols, every label set of at most 4 labels
\* whose average length is below 15 and whose longest label has at most 40
\* characters gets min(4, number of labels) columns.
C11_ShortLabelsNoneVeryLong ==
    (DefaultCall /\ NLabels <= 4 /\ AvgBelow(15) /\ Longest <= 40)
        => ret.val = Smaller(4, NLabels)

C11_Witness ==
    DefaultCall /\ NLabels = 4 /\ AvgBelow(15) /\ Longest = 40 /\ ret.val = 4

\* C12: the column count returned is in 1..max_cols, so a legend whose ncol is
\* computed has at most 4 columns for 'top'/'top-smart' (max_cols = 4), at most 2
\* for 'outside' (max_cols = 2) and at most 3 for any other position (max_cols = 3).
C12_WithinMaxCols == Counted => (ret.val >= 1 /\ ret.val <= ret.max_cols)

\* C22: with the default parameters, ['Very long description text', 'Another long
\* one'] gives 1 column and ['Short', 'A bit longer'] gives 2 columns.
C22_DocumentedExamples ==
    DefaultCall =>
        /\ (ret.labels = <<26, 16>> => ret.val = 1)
        /\ (ret.labels = <<5, 12>> => ret.val = 2)

\* the cutoffs prs_legend passes as max_label_length
LengthCutoffs == {prm[1] : prm \in NcolParams}

C30_AtMostOnePerLabel ==
    (Counted /\ NLabels > 0) => (1 <= ret.val /\ ret.val <= NLabels)

(***************************************************************************)
(* Properties of prs_legend                                                *)
(***************************************************************************)
Legended == ret.op = "legend"

\* the keyword arguments ax.legend was called with
Passed == ax.legend_[1]

\* the option is the caller's if the caller passed it and is v otherwise
Option(key, v) ==
    /\ key \in DOMAIN Passed
    /\ Passed[key] = (IF key \in DOMAIN ret.kwargs THEN ret.kwargs[key] ELSE v)

\* the x of the anchor of a top legend, in hundredths, by its column count
TopX == CASE Passed.ncol = 1 -> 50 [] Passed.ncol = 2 -> 35 [] Passed.ncol = 3 -> 40
          [] Passed.ncol >= 4 -> 45

\* C13: the placement follows the position name: 'outside' -> loc 'center left',
\* anchor (1.02, 0.5), framed; 'top'/'top-smart' -> loc 'upper center', frameless,
\* anchor (x, 1.12) with x = 0.5, 0.35, 0.4, 0.45 for ncol = 1, 2, 3, >= 4;
\* 'best' -> loc 'best', framed; any other string -> that string as loc, framed;
\* each of these values is used unless the caller passed that option explicitly.
C13_PlacementTable ==
    Legended =>
        CASE ret.position = "outside" ->
                 /\ Option("loc", "center left")
                 /\ Option("bbox_to_anchor", <<102, 50>>)
                 /\ Option("frameon", TRUE)
          [] ret.position \in {"top", "top-smart"} ->
                 /\ Option("loc", "upper center")
                 /\ Option("bbox_to_anchor", <<TopX, 112>>)
                 /\ Option("frameon", FALSE)
          [] ret.position = "best" ->
                 /\ Option("loc", "best")
                 /\ Option("frameon", TRUE)
          [] OTHER ->
                 /\ Option("loc", ret.position)
                 /\ Option("frameon", TRUE)

\* a top legend of two computed columns anchored at (0.35, 1.12), no option passed
C13_Witness ==
    /\ Legended /\ ret.position = "top" /\ ret.ncol = <<>> /\ DOMAIN ret.kwargs = {}
    /\ Passed.ncol = 2 /\ Passed.loc = "upper center"
    /\ Passed.bbox_to_anchor = <<35, 112>> /\ ~Passed.frameon

\* the plot prs_legend was called on shows a bar
HasBar ==
    \/ \E i \in 1..Len(ret.before.patches) : ret.before.patches[i].cls = "Rectangle"
    \/ \E i \in 1..Len(ret.before.containers) : ret.before.containers[i].cls = "BarContainer"

\* C14: when the axes contain a bar (a rectangle patch or a bar container), the
\* legend is requested with markerscale 4, handleheight 2 and handlelength 2 for
\* every position, except for those of the three the caller passed explicitly.
C14_BarHandlesEnlarged ==
    (Legended /\ HasBar) =>
        /\ Option("markerscale", 4)
        /\ Option("handleheight", 2)
        /\ Option("handlelength", 2)

\* a rectangle added as a patch, no container, legend at 'best', no option passed
C14_Witness ==
    /\ Legended /\ HasBar /\ ret.before.containers = <<>> /\ ret.position = "best"
    /\ DOMAIN ret.kwargs = {} /\ ~ret.compact
    /\ Passed.markerscale = 4 /\ Passed.handleheight = 2 /\ Passed.handlelength = 2

(***************************************************************************)
(* Properties of save_prs_figure                                           *)
(***************************************************************************)
SaveCalled == ret.op = "save"

\* C16: called with validate=True and a dpi below 300 or a width below 3.25 inch,
\* save_prs_figure raises ValueError and writes no file.
C16_ValidationRaises ==
    (SaveCalled /\ ret.validate /\ (ret.dpi < 300 \/ 4 * ret.width_inches < 13 * Inch))
        => (ret.raised = "ValueError" /\ env.files = ret.before.files)

(***************************************************************************)
(* Properties of apply_prs_style                                           *)
(***************************************************************************)
Styled == ret.op = "style"

\* C17: a cycle name other than 'default', 'clinical' and 'comparison' is rejected
\* with an error, no cycle is selected in its place, and rcParams is exactly what it
\* was before the call.
C17_UnknownCycleRejected ==
    (Styled /\ ret.cycle \notin {"default", "clinical", "comparison"})
        => (ret.raised = "ValueError" /\ env.rcParams = ret.before.rcParams)

\* an unknown cycle name after the clinical style had been applied
C17_Witness ==
    /\ Styled /\ ret.cycle = "pastel" /\ ret.raised = "ValueError"
    /\ ret.before.rcParams["axes.prop_cycle"] = "PRS_CLINICAL_CYCLE"
    /\ env.rcParams["axes.prop_cycle"] = "PRS_CLINICAL_CYCLE"

(***************************************************************************)
(* Properties of get_significance_symbol                                   *)
(***************************************************************************)
Symbolized == ret.op = "symbol"

\* C18: every p-value gets exactly one symbol, by the thresholds p < 0.001 -> '***',
\* 0.001 <= p < 0.01 -> '**', 0.01 <= p < 0.05 -> '*', p >= 0.05 -> 'ns'.
C18_SymbolThresholds ==
    (Symbolized /\ ret.p_value # NaN) =>
        /\ ret.val \in {"***", "**", "*", "ns"}
        /\ ret.val = "***" <=> ret.p_value < 10
        /\ ret.val = "**" <=> (10 <= ret.p_value /\ ret.p_value < 100)
        /\ ret.val = "*" <=> (100 <= ret.p_value /\ ret.p_value < 500)
        /\ ret.val = "ns" <=> ret.p_value >= 500

\* p = 0.001 exactly is '**'
C18_Witness == Symbolized /\ ret.p_value = 10 /\ ret.val = "**"

(***************************************************************************)
(* Properties of auto_extend_ylim                                          *)
(***************************************************************************)
Extended == ret.op = "extend"

OldMin == ret.before.ylim[1]

OldMax == ret.before.ylim[2]

\* C19: the new maximum is the old one plus extension_pct times the range found
\* (old maximum - old minimum); the new minimum is 0 when the old minimum is >= 0 and
\* the old minimum otherwise; the limits returned are the limits set on the axis.
C19_ExtendsByPct ==
    Extended =>
        /\ ret.val[2] - OldMax = ret.extension_pct * ((OldMax - OldMin) \div 100)
        /\ (OldMin >= 0 => ret.val[1] = 0)
        /\ (OldMin < 0 => ret.val[1] = OldMin)
        /\ ax.ylim = ret.val

\* limits (1, 5) extended by 15%: the maximum becomes 5.6 and the minimum 0
C19_Witness ==
    /\ Extended /\ ret.extension_pct = 15 /\ ret.before.ylim = <<Unit, 5 * Unit>>
    /\ ax.ylim = <<0, 5 * Unit + (Unit \div 10) * 6>>

(***************************************************************************)
(* Properties of the colour conversions                                    *)
(***************************************************************************)
RoundTripped == ret.op = "cmyk_to_rgb"

Dist(a, b) == IF a >= b THEN a - b ELSE b - a

\* C20: cmyk_to_rgb(rgb_to_cmyk(r, g, b)) is (r, g, b) within 0.01 per component,
\* for every triple with components in [0, 1], pure black (0, 0, 0) included.
C20_RoundTrip ==
    RoundTripped => \A i \in 1..3 : 100 * Dist(ret.val[i], ret.rgb[i]) < Scale

\* pure black: (0, 0, 0) -> (0, 0, 0, 1) -> (0, 0, 0)
C20_Witness ==
    /\ RoundTripped /\ ret.rgb = <<0, 0, 0>> /\ ret.cmyk = <<0, 0, 0, Scale>>
    /\ ret.val = <<0, 0, 0>>

(***************************************************************************)
(* Properties of add_significance_indicator                                *)
(***************************************************************************)
Indicated == ret.op = "indicator"

Added == ax.texts[Len(ax.texts)].text

\* C21: a call adds exactly one annotation text; it is the p-value text ('p < 0.001'
\* when p < 0.001, otherwise 'p = ' with the value) when show_p_value is true and a
\* p_value is given, and the symbol in every other case.
C21_OneTextPOrSymbol ==
    Indicated =>
        /\ Len(ax.texts) = Len(ret.before.texts) + 1
        /\ \A i \in 1..Len(ret.before.texts) : ax.texts[i] = ret.before.texts[i]
        /\ IF ret.show_p_value /\ ret.p_value # <<>>
           THEN IF ret.p_value[1] # NaN /\ ret.p_value[1] < 10
                THEN Added = <<"p < 0.001">>
                ELSE Len(Added) = 3 /\ Added[1] = "p = "
           ELSE Added = <<"symbol", ret.symbol>>

\* p = 0.023 given but show_p_value false: the symbol is the one text added
C21_Witness ==
    /\ Indicated /\ ret.p_value = <<230>> /\ ~ret.show_p_value /\ ret.symbol = "ns"
    /\ Len(ax.texts) = 1 /\ Added = <<"symbol", "ns">>
\* the bracket vertices the call has drawn
DrawnBrackets == ax.lines \ ret.before.lines

Compared == ret.op = "comparisons"

\* C26: on a plot with positive data, the data maximum found after a call (with
\* auto_adjust_ylim) has drawn its brackets is the one found before the call.
C26_BracketsAreNotData ==
    (/\ Compared
     /\ ret.auto_adjust_ylim
     /\ Len(ret.comparisons) > 0
     /\ \E v \in Scanned(ret.before, NoRange) : v > 0)
    => GetDataMaxInRange(ax, NoRange) = GetDataMaxInRange(ret.before, NoRange)

\* C27: with auto_adjust_ylim on a plot with positive data range, no bracket is
\* drawn above the axis maximum the call has set.
C27_BracketsInsideAxis ==
    (/\ Compared
     /\ ret.auto_adjust_ylim
     /\ \E v \in Scanned(ret.before, NoRange) : v > 0
     /\ DataRange(ret.before) > 0)
    => \A pt \in DrawnBrackets : pt.y <= ax.ylim[2]

Optimized == ret.op = "optimal"

\* C28: for a non-zero data_max passed by the caller, the limits returned have
\* ymin < ymax and ymax >= data_max.
C28_DataMaxInside ==
    (Optimized /\ ret.data_max # <<>> /\ ret.data_max # <<0>>) =>
        /\ ret.val[1] < ret.val[2]
        /\ ret.val[2] >= ret.data_max[1]

====
